---- MODULE Spec2Model ----
(***************************************************************************)
(* netlock: a pf(4) network lock (vpn killswitch).                         *)
(*                                                                         *)
(* The repository holds two generations of the same program:               *)
(*   "pf"  : netlock.go (flags, init, main) with pf.go (the controller),   *)
(*   "osx" : the earlier main (addServer, -pass resolves hosts) with       *)
(*           osx_pf.go (the controller) and utils.go.                      *)
(* The variable version selects the generation a run executes.  One run is *)
(* one process: flag parsing, init(), main(), preconfig(), the temporary   *)
(* file, the pfctl load, the success output.  The firewall engine and the  *)
(* filesystem outlive the process; an administrator may switch the engine  *)
(* on or off at any moment.                                                *)
(*                                                                         *)
(* Strings that come from the user (destinations, interfaces, lines of a   *)
(* configuration file) are sequences of one-character strings, so that    *)
(* strings.Contains, strings.Split, strings.TrimSpace and the regexp can   *)
(* be computed.  Text produced by a format string is a sequence of lines,  *)
(* a line a sequence of pieces: Lit(s) for the format's own characters,    *)
(* Str(c) for a substituted user string.                                   *)
(***************************************************************************)
EXTENDS Integers, Sequences, FiniteSets, TLC

VARIABLES
    version,        \* "pf" | "osx": generation of the sources this process runs
    argv,           \* the command line: sequence of [flag, val]
    argIdx,         \* index of the next command-line argument flag.Parse handles
    flags,          \* the flag* booleans and flagDefaultConfigurationPath
    destinations,   \* netlock.go: destinations / osx main: flagServers
    interfaces,     \* netlock.go: interfaces / osx main: flagInterfaces
    pf,             \* the *PF of main(), NoPF before NewPF
    pc,             \* position of the process
    tmpName,        \* tmpf.Name() of makeLockConfiguration, NoFile before
    env,            \* [binPresent, uid, existing]: search path, user, baseline files
    engine,         \* the packet filter: [enabled, rules]
    tmpfs,          \* temporary directory: name -> content of the files in it
    stdout,         \* what the process wrote to standard output
    stderr,         \* what the process wrote to standard error
    exitCode,       \* exit status, NoExit while running
    calls,          \* pfctl invocations of this run, in order
    checks,         \* preconditions evaluated in this run, in order: [name, ok]
    run,            \* number of the current run
    rules0,         \* the engine's ruleset when this run started
    history         \* per finished run: what it was and what it left behind

vars == <<version, argv, argIdx, flags, destinations, interfaces, pf, pc,
          tmpName, env, engine, tmpfs, stdout, stderr, exitCode, calls,
          checks, run, rules0, history>>

-----------------------------------------------------------------------------
(* Bounds *)

MaxArgs == 1        \* destination/interface/file arguments on a command line
MaxRuns == 2        \* successive invocations of the program
MaxDests == 2       \* destinations of a Policy given to the rule compiler
MaxIfs == 1         \* interfaces of a Policy given to the rule compiler

-----------------------------------------------------------------------------
(* Strings *)

Lit(s) == [lit |-> s]
Str(c) == [str |-> c]

Range(f) == {f[i] : i \in DOMAIN f}

\* strings.Contains(s, ch) for a one-character ch
Contains(s, ch) == \E i \in DOMAIN s : s[i] = ch

IsSpace(ch) == ch \in {" ", "\t"}

RECURSIVE TrimLeft(_)
TrimLeft(s) ==
    IF s # <<>> /\ IsSpace(Head(s)) THEN TrimLeft(Tail(s)) ELSE s

RECURSIVE TrimRight(_)
TrimRight(s) ==
    IF s # <<>> /\ IsSpace(s[Len(s)])
    THEN TrimRight(SubSeq(s, 1, Len(s) - 1))
    ELSE s

\* strings.TrimSpace
TrimSpace(s) == TrimRight(TrimLeft(s))

\* strings.Split(s, sep) for a one-character sep: always at least one field
RECURSIVE SplitFrom(_, _, _)
SplitFrom(s, sep, cur) ==
    IF s = <<>> THEN <<cur>>
    ELSE IF Head(s) = sep
         THEN <<cur>> \o SplitFrom(Tail(s), sep, <<>>)
         ELSE SplitFrom(Tail(s), sep, Append(cur, Head(s)))

Split(s, sep) == SplitFrom(s, sep, <<>>)

\* strings.Join(elems, sep) as pieces
RECURSIVE Join(_, _)
Join(elems, sep) ==
    IF elems = <<>> THEN <<>>
    ELSE IF Len(elems) = 1 THEN <<Str(elems[1])>>
    ELSE <<Str(elems[1]), Lit(sep)>> \o Join(Tail(elems), sep)

-----------------------------------------------------------------------------
(* The inputs the runs draw from *)

Ip4 == <<"9", ".", "9", ".", "9", ".", "9">>
Ip4b == <<"5", ".", "5", ".", "5", ".", "5">>
Ip6 == <<"2", "0", "0", "1", ":", ":", "1">>
HostOk == <<"v", "p", "n", ".", "x">>
HostBad == <<"b", "a", "d", ".", "x">>
Utun == <<"u", "t", "u", "n", "0">>

NoPF == [none |-> TRUE]
NoFile == "<none>"
NoExit == -1

pfDefaultConfigurationPath == "/etc/pf.conf"
CustomConfigurationPath == "/usr/local/etc/pf.conf"

-----------------------------------------------------------------------------
(* Rule compiler *)

\* strings.Join over program constants: the result is a literal
RECURSIVE JoinLits(_, _)
JoinLits(elems, sep) ==
    IF elems = <<>> THEN ""
    ELSE IF Len(elems) = 1 THEN elems[1]
    ELSE elems[1] \o sep \o JoinLits(Tail(elems), sep)

ipv4PrivateAddrs == <<"169.254/16", "192.168/16", "172.16/12", "10/8">>
ipv6PrivateAddrs == <<"fe80::/10", "fc00::/7">>

\* for _, addr := range addrs { Fprintf("pass quick from %s to %s\n", addr, addr) }
PassQuickLines(addrs) ==
    [i \in 1..Len(addrs) |->
        <<Lit("pass quick from " \o addrs[i] \o " to " \o addrs[i])>>]

\* pf.go: the "set skip on" list; osx_pf.go joins with a space instead
SkipList(ifs, sep) ==
    IF Len(ifs) > 0
    THEN <<Lit("lo0"), Lit(sep)>> \o Join(ifs, sep)
    ELSE <<Lit("lo0")>>

TableLine(p) ==
    <<Lit("table <" \o p.destinationsTableName \o "> { ")>>
        \o Join(p.destinations, ", ") \o <<Lit(" }")>>

DefaultIn(p) ==
    IF p.allowIncoming THEN <<Lit("pass in all")>> ELSE <<Lit("block in all")>>

DefaultOut(p) ==
    IF p.allowOutgoing THEN <<Lit("pass out all")>> ELSE <<Lit("block out all")>>

PrivateNetworkLines ==
    PassQuickLines(ipv4PrivateAddrs)
    \o << <<Lit("pass out quick from { " \o JoinLits(ipv4PrivateAddrs, ", ")
                \o " } to { 224/24, 255.255.255.255/32 }")>> >>
    \o PassQuickLines(ipv6PrivateAddrs)
    \o << <<Lit("pass out quick from { " \o JoinLits(ipv6PrivateAddrs, ", ")
                \o " } to { ff02::/16, ff12::/16 }")>> >>

IcmpLines == << <<Lit("pass quick proto { icmp, icmp6 } all")>> >>

TablePassLine(p) ==
    <<Lit("pass out quick from any to <" \o p.destinationsTableName \o ">")>>

\* BuildLockRules with the pass rule on the table written ahead of the defaults
BuildLockRulesPassFirst(p) ==
    << TableLine(p),
       <<Lit("set block-policy return")>>,
       <<Lit("set skip on { ")>> \o SkipList(p.interfaces, ", ") \o <<Lit(" }")>>,
       <<Lit("scrub in all fragment reassemble")>>,
       TablePassLine(p),
       DefaultIn(p),
       DefaultOut(p) >>
    \o (IF p.allowPrivateNetworks THEN PrivateNetworkLines ELSE <<>>)
    \o (IF p.allowICMP THEN IcmpLines ELSE <<>>)

\* pf.go BuildLockRules
BuildLockRules(p) ==
    << TableLine(p),
       <<Lit("set block-policy return")>>,
       <<Lit("set skip on { ")>> \o SkipList(p.interfaces, ", ") \o <<Lit(" }")>>,
       <<Lit("scrub in all fragment reassemble")>>,
       DefaultIn(p),
       DefaultOut(p) >>
    \o (IF p.allowPrivateNetworks THEN PrivateNetworkLines ELSE <<>>)
    \o (IF p.allowICMP THEN IcmpLines ELSE <<>>)
    \o << TablePassLine(p) >>

OsxPrivateNetworkLines ==
    << <<Lit("pass out quick inet from 192.168.0.0/16 to 192.168.0.0/16")>>,
       <<Lit("pass in quick inet from 192.168.0.0/16 to 192.168.0.0/16")>>,
       <<Lit("pass out quick inet from 172.16.0.0/12 to 172.16.0.0/12")>>,
       <<Lit("pass in quick inet from 172.16.0.0/12 to 172.16.0.0/12")>>,
       <<Lit("pass out quick inet from 10.0.0.0/8 to 10.0.0.0/8")>>,
       <<Lit("pass in quick inet from 10.0.0.0/8 to 10.0.0.0/8")>>,
       <<Lit("pass out quick inet from 192.168.0.0/16 to 224.0.0.0/24")>>,
       <<Lit("pass out quick inet from 172.16.0.0/12 to 224.0.0.0/24")>>,
       <<Lit("pass out quick inet from 10.0.0.0/8 to 224.0.0.0/24")>>,
       <<Lit("pass out quick inet from 192.168.0.0/16 to 239.255.255.250/32")>>,
       <<Lit("pass out quick inet from 172.16.0.0/12 to 239.255.255.250/32")>>,
       <<Lit("pass out quick inet from 10.0.0.0/8 to 239.255.255.250/32")>>,
       <<Lit("pass out quick inet from 192.168.0.0/16 to 239.255.255.253/32")>>,
       <<Lit("pass out quick inet from 172.16.0.0/12 to 239.255.255.253/32")>>,
       <<Lit("pass out quick inet from 10.0.0.0/8 to 239.255.255.253/32")>>,
       <<Lit("pass out quick inet6 from fe80::/10 to fe80::/10")>>,
       <<Lit("pass in quick inet6 from fe80::/10 to fe80::/10")>>,
       <<Lit("pass out quick inet6 from ff00::/8 to ff00::/8")>>,
       <<Lit("pass in quick inet6 from ff00::/8 to ff00::/8")>> >>

OsxIcmpLines ==
    << <<Lit("pass quick proto icmp")>>, <<Lit("pass quick proto icmp6 all")>> >>

\* the family chosen without looking at the address
InetNoColonTest(ip) == "inet"

\* osx_pf.go: inet6 when the address holds a colon, inet otherwise
Inet(ip) == IF Contains(ip, ":") THEN "inet6" ELSE "inet"

\* osx_pf.go: Fprintf("pass out quick %s from any to %s\n", inet, ip)
IpRuleLine(ip) ==
    <<Lit("pass out quick " \o Inet(ip) \o " from any to "), Str(ip)>>

\* osx_pf.go BuildLockRules (p.destinations is its pf.ips)
OsxBuildLockRules(p) ==
    << <<Lit("set block-policy return")>>,
       <<Lit("set skip on { ")>> \o SkipList(p.interfaces, " ") \o <<Lit(" }")>>,
       <<Lit("scrub in all")>>,
       DefaultIn(p),
       DefaultOut(p) >>
    \o (IF p.allowPrivateNetworks THEN OsxPrivateNetworkLines ELSE <<>>)
    \o (IF p.allowICMP THEN OsxIcmpLines ELSE <<>>)
    \o [i \in 1..Len(p.destinations) |-> IpRuleLine(p.destinations[i])]

\* pf.BuildLockRules() of the generation v
Rules(v, p) == IF v = "pf" THEN BuildLockRules(p) ELSE OsxBuildLockRules(p)

-----------------------------------------------------------------------------
(* Destination extractor *)

Digits == {"0", "1", "2", "3", "4", "5", "6", "7", "8", "9"}
HexDigits == Digits \cup {"a", "b", "c", "d", "e", "f"}

DigitVal(ch) ==
    CASE ch = "0" -> 0 [] ch = "1" -> 1 [] ch = "2" -> 2 [] ch = "3" -> 3
      [] ch = "4" -> 4 [] ch = "5" -> 5 [] ch = "6" -> 6 [] ch = "7" -> 7
      [] ch = "8" -> 8 [] ch = "9" -> 9

RECURSIVE DecVal(_)
DecVal(s) ==
    IF s = <<>> THEN 0 ELSE DecVal(SubSeq(s, 1, Len(s) - 1)) * 10 + DigitVal(s[Len(s)])

\* one dotted-decimal field of net.ParseIP: digits, no leading zero, at most 255
IsDecByte(f) ==
    /\ Len(f) \in 1..3
    /\ \A i \in DOMAIN f : f[i] \in Digits
    /\ (Len(f) > 1 => f[1] # "0")
    /\ DecVal(f) <= 255

ParseIPv4(s) ==
    LET fs == Split(s, ".")
    IN  Len(fs) = 4 /\ \A i \in 1..4 : IsDecByte(fs[i])

IsHexGroup(f) == Len(f) \in 1..4 /\ \A i \in DOMAIN f : f[i] \in HexDigits

\* net.ParseIP for the colon form: hexadecimal groups, at most one "::"
ParseIPv6(s) ==
    LET fs == Split(s, ":")
        n == Len(fs)
        empties == {i \in 1..n : fs[i] = <<>>}
        inner == {i \in empties : i > 1 /\ i < n}
        lead == 1 \in empties
        trail == n \in empties
    IN  /\ n >= 3
        /\ \A i \in 1..n : fs[i] = <<>> \/ IsHexGroup(fs[i])
        /\ (lead => 2 \in empties)
        /\ (trail => (n - 1) \in empties)
        /\ IF empties = {}
           THEN n = 8
           ELSE /\ n - Cardinality(empties) <= 7
                /\ \/ s = <<":", ":">>
                   \/ lead /\ ~trail /\ empties = {1, 2}
                   \/ trail /\ ~lead /\ empties = {n - 1, n}
                   \/ ~lead /\ ~trail /\ Cardinality(inner) = 1

\* net.ParseIP(s) != nil
ParseIP(s) == ParseIPv4(s) \/ ParseIPv6(s)

\* net.LookupIP: the resolver of the host the program runs on
LookupIP(host) ==
    IF host = HostOk
    THEN [err |-> FALSE, addrs |-> <<Ip4b, Ip6>>]
    ELSE [err |-> TRUE, addrs |-> <<>>]

\* addServer that keeps the first resolved address only
addServerFirstAddr(servers, s) ==
    IF ParseIP(s)
    THEN [err |-> FALSE, list |-> Append(servers, s)]
    ELSE LET r == LookupIP(s)
         IN  IF r.err
             THEN [err |-> TRUE, list |-> servers]
             ELSE [err |-> FALSE, list |-> Append(servers, r.addrs[1])]

\* addServer that drops the resolver's error
addServerIgnoreError(servers, s) ==
    IF ParseIP(s)
    THEN [err |-> FALSE, list |-> Append(servers, s)]
    ELSE [err |-> FALSE, list |-> servers \o LookupIP(s).addrs]

\* osx main: addServer(s) on the list servers
addServer(servers, s) ==
    IF ParseIP(s)
    THEN [err |-> FALSE, list |-> Append(servers, s)]
    ELSE LET r == LookupIP(s)
         IN  IF r.err
             THEN [err |-> TRUE, list |-> servers]
             ELSE [err |-> FALSE, list |-> servers \o r.addrs]

\* netlock.go: setMultiple(dest, vals)
setMultiple(dest, vals) ==
    LET parts == Split(vals, ",")
    IN  dest \o [i \in 1..Len(parts) |-> TrimSpace(parts[i])]

ReSpace(ch) == ch \in {" ", "\t", "\n", "\f", "\r"}

RemoteWord == <<"r", "e", "m", "o", "t", "e">>
EndpointWord == <<"E", "n", "d", "p", "o", "i", "n", "t">>

StartsAt(s, i, w) ==
    /\ i + Len(w) - 1 <= Len(s)
    /\ \A k \in 1..Len(w) : s[i + k - 1] = w[k]

\* last index of the run of non-space characters that starts at i (i-1 if none)
RECURSIVE RunEnd(_, _)
RunEnd(s, i) ==
    IF i > Len(s) \/ ReSpace(s[i]) THEN i - 1 ELSE RunEnd(s, i + 1)

\* remote\s([^\s]{4,}) at position i: the group, or <<>> when there is no match
RemoteAt(s, i) ==
    LET g == i + Len(RemoteWord) + 1
        e == RunEnd(s, g)
    IN  IF /\ StartsAt(s, i, RemoteWord)
           /\ g - 1 <= Len(s)
           /\ ReSpace(s[g - 1])
           /\ e - g + 1 >= 4
        THEN SubSeq(s, g, e)
        ELSE <<>>

\* Endpoint\s?=\s?([^\s]{4,}): at position i: the group, or <<>>
EndpointAt(s, i) ==
    LET a == i + Len(EndpointWord)
        eq == IF a <= Len(s) /\ ReSpace(s[a]) THEN a + 1 ELSE a
        b == eq + 1
        g == IF b <= Len(s) /\ ReSpace(s[b]) THEN b + 1 ELSE b
        e == RunEnd(s, g)
        colons == {c \in g..e : s[c] = ":" /\ c - g >= 4}
    IN  IF /\ StartsAt(s, i, EndpointWord)
           /\ eq <= Len(s)
           /\ s[eq] = "="
           /\ colons # {}
        THEN SubSeq(s, g, (CHOOSE c \in colons : \A d \in colons : d <= c) - 1)
        ELSE <<>>

\* re.FindStringSubmatch(line): the first non-empty group of the leftmost match
RECURSIVE FindSubmatchFrom(_, _)
FindSubmatchFrom(s, i) ==
    IF i > Len(s) THEN <<>>
    ELSE IF RemoteAt(s, i) # <<>> THEN RemoteAt(s, i)
    ELSE IF EndpointAt(s, i) # <<>> THEN EndpointAt(s, i)
    ELSE FindSubmatchFrom(s, i + 1)

FindStringSubmatch(s) == FindSubmatchFrom(s, 1)

\* netlock.go flagFilesType.Set: the scan loop over the lines read
RECURSIVE ScanLines(_, _)
ScanLines(dest, lines) ==
    IF lines = <<>> THEN dest
    ELSE LET m == FindStringSubmatch(Head(lines))
         IN  ScanLines(IF m = <<>> THEN dest ELSE Append(dest, m), Tail(lines))

\* osx main flagFilesType.Set: the scan loop, addServer on every match
RECURSIVE OsxScanLines(_, _)
OsxScanLines(servers, lines) ==
    IF lines = <<>> THEN [err |-> FALSE, list |-> servers]
    ELSE LET m == FindStringSubmatch(Head(lines))
             r == IF m = <<>> THEN [err |-> FALSE, list |-> servers]
                  ELSE addServer(servers, m)
         IN  IF r.err THEN r ELSE OsxScanLines(r.list, Tail(lines))

-----------------------------------------------------------------------------
(* The host: configuration files, engine output, temporary names *)

\* "remote 9.9.9.9 1194"
LineRemoteIp == <<"r", "e", "m", "o", "t", "e", " ", "9", ".", "9", ".", "9", ".", "9", " ", "1", "1", "9", "4">>
\* "dev tun"
LineOther == <<"d", "e", "v", " ", "t", "u", "n">>
\* "Endpoint = vpn.x:51820"
LineEndpointHost == <<"E", "n", "d", "p", "o", "i", "n", "t", " ", "=", " ", "v", "p", "n", ".", "x", ":", "5", "1", "8", "2", "0">>
\* "remote bad.x 1194"
LineRemoteBad == <<"r", "e", "m", "o", "t", "e", " ", "b", "a", "d", ".", "x", " ", "1", "1", "9", "4">>

FileOk == "vpn.conf"
FileBad == "bad.conf"
FileMissing == "missing.conf"

\* the configuration files that exist, as the lines bufio.Scanner returns
ConfFiles ==
    [f \in {FileOk, FileBad} |->
        IF f = FileOk THEN <<LineRemoteIp, LineOther, LineEndpointHost>>
        ELSE <<LineRemoteIp, LineRemoteBad>>]

\* "9.9.9.9, 2001::1"
TwoDestinations == Ip4 \o <<",", " ">> \o Ip6

ArgPool ==
    {[flag |-> "pass", val |-> v] : v \in {HostOk, HostBad, TwoDestinations}}
    \cup {[flag |-> "skip", val |-> Utun]}
    \cup {[flag |-> "file", val |-> f] : f \in {FileOk, FileBad, FileMissing}}

RECURSIVE SeqsUpTo(_, _)
SeqsUpTo(S, n) ==
    IF n = 0 THEN {<<>>}
    ELSE LET shorter == SeqsUpTo(S, n - 1)
         IN  shorter \cup {Append(q, x) : q \in shorter, x \in S}

BaselinePaths == {pfDefaultConfigurationPath, CustomConfigurationPath}

\* what the engine holds before the first run, and what the baseline files hold
PriorRules == << <<Lit("pass all")>> >>
BaselineRules(path) == << <<Lit("include "), Lit(path)>> >>
Flushed == <<>>

\* "Status: Enabled" / "Status: Disabled": first line of pfctl -s info
StatusText(enabled) ==
    IF enabled THEN <<"S", "t", "a", "t", "u", "s", ":", " ", "E", "n", "a", "b", "l", "e", "d">>
    ELSE <<"S", "t", "a", "t", "u", "s", ":", " ", "D", "i", "s", "a", "b", "l", "e", "d">>

ToLowerCh(c) ==
    CASE c = "S" -> "s" [] c = "E" -> "e" [] c = "D" -> "d" [] OTHER -> c

\* strings.ToLower
ToLower(s) == [i \in 1..Len(s) |-> ToLowerCh(s[i])]

\* strings.Contains(s, sub)
ContainsSub(s, sub) == \E i \in 1..Len(s) : StartsAt(s, i, sub)

StatusEnabledLower == <<"s", "t", "a", "t", "u", "s", ":", " ", "e", "n", "a", "b", "l", "e", "d">>
StatusEnabledExact == <<"S", "t", "a", "t", "u", "s", ":", " ", "E", "n", "a", "b", "l", "e", "d">>

\* pf.go isEnabled / osx_pf.go isEnabled on the output of the status query
isEnabled(v, out) ==
    IF v = "pf" THEN ContainsSub(ToLower(out), StatusEnabledLower)
    ELSE ContainsSub(out, StatusEnabledExact)

\* ioutil.TempFile("", "netlock.*.conf"): the names it can return
TmpFileName(n) == "netlock." \o ToString(n) \o ".conf"
TmpNames == {TmpFileName(n) : n \in 1..MaxRuns}

ctlPathFound == "/sbin/pfctl"

-----------------------------------------------------------------------------
(* The process *)

\* pf.go NewPF (osx_pf.go NewPF always takes the constant path)
NewPF(defaultConfigurationPath, allowIncoming, allowOutgoing, allowPrivateNetworks, allowICMP, dests, ifs) ==
    [ctlPath |-> "",
     defaultConfigurationPath |->
        IF defaultConfigurationPath = "" THEN pfDefaultConfigurationPath
        ELSE defaultConfigurationPath,
     destinationsTableName |-> "allowed_destinations",
     allowIncoming |-> allowIncoming,
     allowOutgoing |-> allowOutgoing,
     allowPrivateNetworks |-> allowPrivateNetworks,
     allowICMP |-> allowICMP,
     destinations |-> dests,
     interfaces |-> ifs]

FlagValues ==
    [flagEnableLock : BOOLEAN, flagDisableLock : BOOLEAN,
     flagPrintLockRules : BOOLEAN,
     flagAllowIncoming : BOOLEAN, flagAllowOutgoing : BOOLEAN,
     flagAllowPrivateNetworks : BOOLEAN, flagAllowICMP : BOOLEAN,
     flagDefaultConfigurationPath : {"", CustomConfigurationPath}]

\* the command lines of the process runs: the allow flags all given or none
\* (the rule compiler is run on every combination under SpecRules)
RunFlagValues ==
    {f \in FlagValues :
        /\ f.flagAllowIncoming = f.flagAllowOutgoing
        /\ f.flagAllowOutgoing = f.flagAllowPrivateNetworks
        /\ f.flagAllowPrivateNetworks = f.flagAllowICMP}

Init ==
    /\ version \in {"pf", "osx"}
    /\ argv \in SeqsUpTo(ArgPool, MaxArgs)
    /\ flags \in RunFlagValues
    /\ (version = "osx" => flags.flagDefaultConfigurationPath = "")
    /\ argIdx = 1
    /\ destinations = <<>>
    /\ interfaces = <<>>
    /\ pf = NoPF
    /\ pc = "flagParse"
    /\ tmpName = NoFile
    /\ env \in [binPresent : BOOLEAN, root : BOOLEAN, existing : SUBSET BaselinePaths]
    /\ engine \in [enabled : BOOLEAN, rules : {PriorRules}]
    /\ tmpfs = <<>>
    /\ stdout = <<>>
    /\ stderr = <<>>
    /\ exitCode = NoExit
    /\ calls = <<>>
    /\ checks = <<>>
    /\ run = 1
    /\ rules0 = engine.rules
    /\ history = <<>>

\* os.Exit(code) / the tail of log.Fatal: the process is gone
Exit(code) ==
    /\ exitCode' = code
    /\ pc' = "exit"

\* log.Fatal(diag): the diagnostic on standard error, exit status 1
Fatal(diag) ==
    /\ stderr' = Append(stderr, diag)
    /\ Exit(1)

\* package flag, ExitOnError: a Set that returns an error ends the process with 2
FlagError(diag) ==
    /\ stderr' = Append(stderr, diag)
    /\ Exit(2)

\* flagDestinationsType.Set (-pass): netlock.go setMultiple, osx main addServer
SetPass(val) ==
    IF version = "pf"
    THEN /\ destinations' = setMultiple(destinations, val)
         /\ argIdx' = argIdx + 1
         /\ UNCHANGED <<pc, stderr, exitCode>>
    ELSE LET r == addServer(destinations, val)
         IN  /\ destinations' = r.list
             /\ IF r.err
                THEN FlagError(<<Lit("invalid value for flag -pass: no such host "), Str(val)>>)
                     /\ UNCHANGED argIdx
                ELSE argIdx' = argIdx + 1 /\ UNCHANGED <<pc, stderr, exitCode>>

\* flagFilesType.Set (-file): open, scan, match; k lines are read before a
\* read error (k = number of lines: no read error)
SetFile(path, readErr, k) ==
    IF path \notin DOMAIN ConfFiles
    THEN /\ FlagError(<<Lit("invalid value for flag -file: open "), Lit(path)>>)
         /\ UNCHANGED <<destinations, argIdx>>
    ELSE LET lines == SubSeq(ConfFiles[path], 1, k)
             r == IF version = "pf"
                  THEN [err |-> FALSE, list |-> ScanLines(destinations, lines)]
                  ELSE OsxScanLines(destinations, lines)
         IN  /\ destinations' = r.list
             /\ IF r.err
                THEN FlagError(<<Lit("invalid value for flag -file: no such host")>>)
                     /\ UNCHANGED argIdx
                ELSE IF readErr
                THEN FlagError(<<Lit("invalid value for flag -file: read "), Lit(path)>>)
                     /\ UNCHANGED argIdx
                ELSE argIdx' = argIdx + 1 /\ UNCHANGED <<pc, stderr, exitCode>>

\* flag.Parse: the next -pass / -skip / -file argument
FlagSet ==
    /\ pc = "flagParse"
    /\ argIdx <= Len(argv)
    /\ LET a == argv[argIdx]
       IN  CASE a.flag = "pass" ->
                    SetPass(a.val) /\ UNCHANGED interfaces
             [] a.flag = "skip" ->
                    /\ interfaces' = IF version = "pf"
                                     THEN setMultiple(interfaces, a.val)
                                     ELSE Append(interfaces, a.val)
                    /\ argIdx' = argIdx + 1
                    /\ UNCHANGED <<destinations, pc, stderr, exitCode>>
             [] a.flag = "file" ->
                    /\ \E readErr \in BOOLEAN :
                       \E k \in 0..(IF a.val \in DOMAIN ConfFiles
                                    THEN Len(ConfFiles[a.val]) ELSE 0) :
                          /\ (~readErr /\ a.val \in DOMAIN ConfFiles
                                => k = Len(ConfFiles[a.val]))
                          /\ SetFile(a.val, readErr, k)
                    /\ UNCHANGED interfaces
    /\ UNCHANGED <<version, argv, flags, pf, tmpName, env, engine, tmpfs, stdout,
                   calls, checks, run, rules0, history>>

\* main() that takes the print flag for an action on the engine
MainNextPrintActs(f) ==
    IF f.flagEnableLock \/ f.flagDisableLock \/ f.flagPrintLockRules
    THEN "lookPath" ELSE "exit"

\* main() whose EnableLock writes the rules file without calling preconfig()
MainNextWritesFirst(f) ==
    IF f.flagEnableLock THEN "tempFile"
    ELSE IF f.flagDisableLock THEN "lookPath" ELSE "exit"

\* main(): where it goes after NewPF and the print branch
MainNext(f) ==
    IF f.flagEnableLock \/ f.flagDisableLock THEN "lookPath" ELSE "exit"

\* init() that answers contradictory action flags with the usage text and 64
InitCheckUsageOnConflict ==
    /\ pc = "flagParse"
    /\ argIdx > Len(argv)
    /\ IF (flags.flagEnableLock /\ flags.flagDisableLock)
          \/ (~flags.flagEnableLock /\ ~flags.flagDisableLock
                /\ ~flags.flagPrintLockRules)
       THEN /\ stderr' = Append(stderr, <<Lit("usage")>>)
            /\ Exit(64)
       ELSE pc' = "main" /\ UNCHANGED <<stderr, exitCode>>
    /\ UNCHANGED <<version, argv, argIdx, flags, destinations, interfaces, pf,
                   tmpName, env, engine, tmpfs, stdout, calls, checks, run, rules0, history>>

\* init(): after flagParse, the action flags are validated
InitCheck ==
    /\ pc = "flagParse"
    /\ argIdx > Len(argv)
    /\ IF flags.flagEnableLock /\ flags.flagDisableLock
       THEN Fatal(<<Lit("Enable and disable are mutually exclusive")>>)
       ELSE IF ~flags.flagEnableLock /\ ~flags.flagDisableLock
               /\ ~flags.flagPrintLockRules
       THEN /\ stderr' = Append(stderr, <<Lit("usage")>>)
            /\ Exit(64)
       ELSE pc' = "main" /\ UNCHANGED <<stderr, exitCode>>
    /\ UNCHANGED <<version, argv, argIdx, flags, destinations, interfaces, pf,
                   tmpName, env, engine, tmpfs, stdout, calls, checks, run, rules0, history>>

\* main(): NewPF, the print branch, then the dispatch on the action flags
Main ==
    /\ pc = "main"
    /\ LET p == NewPF(flags.flagDefaultConfigurationPath, flags.flagAllowIncoming,
                      flags.flagAllowOutgoing, flags.flagAllowPrivateNetworks,
                      flags.flagAllowICMP, destinations, interfaces)
       IN  /\ pf' = p
           /\ stdout' = IF flags.flagPrintLockRules
                        THEN Append(stdout, Rules(version, p))
                        ELSE stdout
    /\ IF MainNext(flags) = "exit"
       THEN Exit(0)
       ELSE pc' = MainNext(flags) /\ UNCHANGED exitCode
    /\ UNCHANGED <<version, argv, argIdx, flags, destinations, interfaces,
                   tmpName, env, engine, tmpfs, stderr, calls, checks, run, rules0, history>>

\* preconfig() without the stat of the baseline path
PreconfigOrderNoStat(v) == <<"lookPath", "isRoot", "isEnabled">>

\* preconfig() checking the user before the baseline path
PreconfigOrderRootFirst(v) ==
    IF v = "pf" THEN <<"lookPath", "isRoot", "stat", "isEnabled">>
    ELSE <<"lookPath", "isRoot", "isEnabled">>

\* preconfig() asking the engine before it looks at the baseline path
PreconfigOrderStatLast(v) ==
    IF v = "pf" THEN <<"lookPath", "isRoot", "isEnabled", "stat">>
    ELSE <<"lookPath", "isRoot", "isEnabled">>

\* preconfig(): the order of its checks (osx_pf.go has no stat of the baseline)
PreconfigOrder(v) ==
    IF v = "pf" THEN <<"lookPath", "stat", "isRoot", "isEnabled">>
    ELSE <<"lookPath", "isRoot", "isEnabled">>

\* EnableLock / DisableLock: what follows preconfig()
AfterPreconfig(f) == IF f.flagEnableLock THEN "tempFile" ELSE "load"

\* the step that follows the check cur when it passes
NextCheck(v, f, cur) ==
    LET order == PreconfigOrder(v)
        i == CHOOSE k \in DOMAIN order : order[k] = cur
    IN  IF i < Len(order) THEN order[i + 1] ELSE AfterPreconfig(f)

\* preconfig() storing the control path in the wrong field
SetCtlPathOverPolicy(p, path) ==
    [p EXCEPT !.ctlPath = path, !.destinationsTableName = path]

\* preconfig(): pf.ctlPath = ctlPath
SetCtlPath(p, path) == [p EXCEPT !.ctlPath = path]

Checked(name, ok) == checks' = Append(checks, [name |-> name, ok |-> ok])

\* preconfig(): exec.LookPath("pfctl")
LookPath ==
    /\ pc = "lookPath"
    /\ Checked("lookPath", env.binPresent)
    /\ IF env.binPresent
       THEN /\ pf' = SetCtlPath(pf, ctlPathFound)
            /\ pc' = NextCheck(version, flags, "lookPath")
            /\ UNCHANGED <<stderr, exitCode>>
       ELSE /\ Fatal(<<Lit("exec: pfctl: executable file not found in $PATH")>>)
            /\ UNCHANGED pf
    /\ UNCHANGED <<version, argv, argIdx, flags, destinations, interfaces,
                   tmpName, env, engine, tmpfs, stdout, calls, run,
                   rules0, history>>

\* preconfig(): os.Stat(pf.defaultConfigurationPath)
Stat ==
    /\ pc = "stat"
    /\ LET ok == pf.defaultConfigurationPath \in env.existing
       IN  /\ Checked("stat", ok)
           /\ IF ok
              THEN /\ pc' = NextCheck(version, flags, "stat")
                   /\ UNCHANGED <<stderr, exitCode>>
              ELSE Fatal(<<Lit("stat() failed on "), Lit(pf.defaultConfigurationPath)>>)
    /\ UNCHANGED <<version, argv, argIdx, flags, destinations, interfaces, pf,
                   tmpName, env, engine, tmpfs, stdout, calls, run,
                   rules0, history>>

\* preconfig(): isRoot(); userErr: user.Current() failed
IsRoot ==
    /\ pc = "isRoot"
    /\ \E userErr \in BOOLEAN :
        LET ok == ~userErr /\ env.root
        IN  /\ Checked("isRoot", ok)
            /\ IF userErr
               THEN Fatal(<<Lit("user: Current not implemented")>>)
               ELSE IF ~env.root
               THEN Fatal(<<Lit(IF version = "pf" THEN "sudo is required for pfctl"
                                ELSE "sudo required for pfctl")>>)
               ELSE /\ pc' = NextCheck(version, flags, "isRoot")
                    /\ UNCHANGED <<stderr, exitCode>>
    /\ UNCHANGED <<version, argv, argIdx, flags, destinations, interfaces, pf,
                   tmpName, env, engine, tmpfs, stdout, calls, run,
                   rules0, history>>

\* the arguments of the status query and of the load
StatusArgs(v) == IF v = "pf" THEN <<"-s", "info">> ELSE <<"-si">>
LoadArgs(v, path) ==
    IF v = "pf" THEN <<"-F", "all", "-f", path>> ELSE <<"-f", path>>

\* mustExec that forgets os.Stderr.Write(result)
ExecFatalNoOutput(out) ==
    /\ stderr' = Append(stderr, <<Lit("exit status 1")>>)
    /\ Exit(1)

\* mustExec / execCombinedOutput failing: the output on stderr, then log.Fatal
ExecFatal(out) ==
    /\ stderr' = stderr \o <<out, <<Lit("exit status 1")>>>>
    /\ Exit(1)

\* preconfig(): pf.isEnabled(), the status query; execErr: pfctl exits non-zero
IsEnabled ==
    /\ pc = "isEnabled"
    /\ calls' = Append(calls, StatusArgs(version))
    /\ \E execErr \in BOOLEAN :
        LET out == StatusText(engine.enabled)
            ok == ~execErr /\ isEnabled(version, out)
        IN  /\ Checked("isEnabled", ok)
            /\ IF execErr
               THEN ExecFatal(<<Lit("pfctl: status query failed")>>)
               ELSE IF ~isEnabled(version, out)
               THEN Fatal(<<Lit(IF version = "pf" THEN "Packet filter is disabled"
                                ELSE "pf is disabled")>>)
               ELSE /\ pc' = NextCheck(version, flags, "isEnabled")
                    /\ UNCHANGED <<stderr, exitCode>>
    /\ UNCHANGED <<version, argv, argIdx, flags, destinations, interfaces, pf,
                   tmpName, env, engine, tmpfs, stdout, run, rules0,
                   history>>

\* tmpfs with the file name holding content
WithFile(fs, name, content) ==
    [n \in DOMAIN fs \cup {name} |-> IF n = name THEN content ELSE fs[n]]

\* os.Remove(name)
Remove(fs, name) == [n \in DOMAIN fs \ {name} |-> fs[n]]

\* makeLockConfiguration(): ioutil.TempFile("", "netlock.*.conf")
TempFile ==
    /\ pc = "tempFile"
    /\ \/ /\ Fatal(<<Lit("open netlock.conf: cannot create temporary file")>>)
          /\ UNCHANGED <<tmpName, tmpfs>>
       \/ \E name \in TmpNames \ DOMAIN tmpfs :
             /\ tmpName' = name
             /\ tmpfs' = WithFile(tmpfs, name, <<>>)
             /\ pc' = "write"
             /\ UNCHANGED <<stderr, exitCode>>
    /\ UNCHANGED <<version, argv, argIdx, flags, destinations, interfaces, pf,
                   env, engine, stdout, calls, checks, run, rules0,
                   history>>

\* makeLockConfiguration(): what is done with the file when WriteString fails
AfterWriteError(fs, name) == Remove(fs, name)

\* makeLockConfiguration(): tmpf.WriteString(pf.BuildLockRules())
WriteString ==
    /\ pc = "write"
    /\ \E writeErr \in BOOLEAN :
        IF writeErr
        THEN /\ tmpfs' = AfterWriteError(tmpfs, tmpName)
             /\ Fatal(<<Lit("write "), Lit(tmpName)>>)
        ELSE /\ tmpfs' = WithFile(tmpfs, tmpName, Rules(version, pf))
             /\ pc' = "close"
             /\ UNCHANGED <<stderr, exitCode>>
    /\ UNCHANGED <<version, argv, argIdx, flags, destinations, interfaces, pf,
                   tmpName, env, engine, stdout, calls, checks, run,
                   rules0, history>>

\* makeLockConfiguration(): tmpf.Close()
Close ==
    /\ pc = "close"
    /\ \E closeErr \in BOOLEAN :
        IF closeErr
        THEN Fatal(<<Lit("close "), Lit(tmpName)>>)
        ELSE pc' = "load" /\ UNCHANGED <<stderr, exitCode>>
    /\ UNCHANGED <<version, argv, argIdx, flags, destinations, interfaces, pf,
                   tmpName, env, engine, tmpfs, stdout, calls, checks, run, rules0, history>>

\* EnableLock loads the temporary file, DisableLock the baseline
LoadPath == IF flags.flagEnableLock THEN tmpName ELSE pf.defaultConfigurationPath

\* what pfctl finds at path: <<TRUE, rules>> or <<FALSE>>
FileAt(path) ==
    IF path \in DOMAIN tmpfs THEN [found |-> TRUE, rules |-> tmpfs[path]]
    ELSE IF path \in env.existing THEN [found |-> TRUE, rules |-> BaselineRules(path)]
    ELSE [found |-> FALSE, rules |-> <<>>]

\* a load that adds to the ruleset in place instead of replacing it
LoadedOnTop(old, rules) == old \o rules

\* the ruleset the engine holds after a successful load of rules
Loaded(old, rules) == rules

\* loadConfiguration that asks for the status again and stops when the
\* packet filter is found disabled
LoadConfigurationRechecks ==
    /\ pc = "load"
    /\ IF ~engine.enabled
       THEN /\ calls' = Append(calls, StatusArgs(version))
            /\ Fatal(<<Lit("Packet filter is disabled")>>)
            /\ UNCHANGED engine
       ELSE /\ calls' = calls \o <<StatusArgs(version), LoadArgs(version, LoadPath)>>
            /\ LET file == FileAt(LoadPath)
               IN  \/ /\ file.found
                      /\ engine' = [engine EXCEPT !.rules = Loaded(engine.rules, file.rules)]
                      /\ pc' = "ok"
                      /\ UNCHANGED <<stderr, exitCode>>
                   \/ /\ UNCHANGED engine
                      /\ ExecFatal(<<Lit("pfctl: "), Lit(LoadPath), Lit(": load failed")>>)
    /\ UNCHANGED <<version, argv, argIdx, flags, destinations, interfaces, pf,
                   tmpName, env, tmpfs, stdout, checks, run, rules0,
                   history>>

\* loadConfiguration(path): pfctl -F all -f path; execErr: pfctl exits non-zero
LoadConfiguration ==
    /\ pc = "load"
    /\ calls' = Append(calls, LoadArgs(version, LoadPath))
    /\ LET file == FileAt(LoadPath)
       IN  \/ /\ file.found
              /\ engine' = [engine EXCEPT !.rules = Loaded(engine.rules, file.rules)]
              /\ pc' = "ok"
              /\ UNCHANGED <<stderr, exitCode>>
           \/ /\ \E rules \in {engine.rules} \cup
                              (IF version = "pf" THEN {Flushed} ELSE {}) :
                    engine' = [engine EXCEPT !.rules = rules]
              /\ ExecFatal(<<Lit("pfctl: "), Lit(LoadPath), Lit(": load failed")>>)
    /\ UNCHANGED <<version, argv, argIdx, flags, destinations, interfaces, pf,
                   tmpName, env, tmpfs, stdout, checks, run, rules0,
                   history>>

stringsDone == <<Lit("OK")>>

\* main(): fmt.Println("OK") after EnableLock / DisableLock returned
PrintOK ==
    /\ pc = "ok"
    /\ stdout' = Append(stdout, <<stringsDone>>)
    /\ Exit(0)
    /\ UNCHANGED <<version, argv, argIdx, flags, destinations, interfaces, pf,
                   tmpName, env, engine, tmpfs, stderr, calls, checks, run, rules0, history>>

\* the administrator switches the packet filter on or off (pfctl -e / -d)
EngineToggle ==
    /\ engine' = [engine EXCEPT !.enabled = ~engine.enabled]
    /\ UNCHANGED <<version, argv, argIdx, flags, destinations, interfaces, pf, pc,
                   tmpName, env, tmpfs, stdout, stderr, exitCode, calls, checks,
                   run, rules0, history>>

\* the same command line is run again
Rerun ==
    /\ pc = "exit"
    /\ run < MaxRuns
    /\ history' = Append(history,
                         [exitCode |-> exitCode, rules |-> engine.rules])
    /\ run' = run + 1
    /\ argIdx' = 1
    /\ destinations' = <<>>
    /\ interfaces' = <<>>
    /\ pf' = NoPF
    /\ pc' = "flagParse"
    /\ tmpName' = NoFile
    /\ stdout' = <<>>
    /\ stderr' = <<>>
    /\ exitCode' = NoExit
    /\ calls' = <<>>
    /\ checks' = <<>>
    /\ rules0' = engine.rules
    /\ UNCHANGED <<version, argv, flags, env, engine, tmpfs>>

Next ==
    \/ FlagSet
    \/ InitCheck
    \/ Main
    \/ LookPath
    \/ Stat
    \/ IsRoot
    \/ IsEnabled
    \/ TempFile
    \/ WriteString
    \/ Close
    \/ LoadConfiguration
    \/ PrintOK
    \/ EngineToggle

\* one invocation of the program, on any host and any command line
Spec == Init /\ [][Next]_vars

\* successive invocations on a host where the preconditions of enable hold
InitTwice ==
    /\ Init
    /\ flags.flagEnableLock /\ ~flags.flagDisableLock
    /\ env.binPresent /\ env.root /\ env.existing = BaselinePaths

NextTwice == Next \/ Rerun

SpecTwice == InitTwice /\ [][NextTwice]_vars

\* the rule compiler alone: main() of a print-only invocation, on every
\* combination of the allow flags, after flag.Parse collected the lists
InitRules ==
    /\ version \in {"pf", "osx"}
    /\ argv = <<>>
    /\ argIdx = 1
    /\ flags \in {f \in FlagValues :
                    /\ f.flagPrintLockRules
                    /\ ~f.flagEnableLock /\ ~f.flagDisableLock
                    /\ f.flagDefaultConfigurationPath = ""}
    /\ destinations \in SeqsUpTo({Ip4, Ip6, HostOk}, MaxDests)
    /\ interfaces \in SeqsUpTo({Utun}, MaxIfs)
    /\ pf = NoPF
    /\ pc = "main"
    /\ tmpName = NoFile
    /\ env = [binPresent |-> TRUE, root |-> TRUE, existing |-> BaselinePaths]
    /\ engine = [enabled |-> TRUE, rules |-> PriorRules]
    /\ tmpfs = <<>>
    /\ stdout = <<>>
    /\ stderr = <<>>
    /\ exitCode = NoExit
    /\ calls = <<>>
    /\ checks = <<>>
    /\ run = 1
    /\ rules0 = engine.rules
    /\ history = <<>>

NextRules == Main

SpecRules == InitRules /\ [][NextRules]_vars

-----------------------------------------------------------------------------
(* Vocabulary of the properties *)

IsLoad(c) == "-f" \in Range(c)
LoadIssued == \E i \in DOMAIN calls : IsLoad(calls[i])
PassedChecks == {checks[i].name : i \in {k \in DOMAIN checks : checks[k].ok}}
FailedChecks == {checks[i].name : i \in {k \in DOMAIN checks : ~checks[k].ok}}
CheckNames == [i \in DOMAIN checks |-> checks[i].name]
IsPrefix(a, b) == Len(a) <= Len(b) /\ \A i \in DOMAIN a : a[i] = b[i]
LastDiag == stderr[Len(stderr)]
EnableRun == flags.flagEnableLock /\ ~flags.flagDisableLock
DisableRun == flags.flagDisableLock /\ ~flags.flagEnableLock
FourPreconditions == {"lookPath", "stat", "isRoot", "isEnabled"}

-----------------------------------------------------------------------------
(* C1 *)

\* C1: in pf.go the load (pfctl -F all -f path) is issued only after the four
\* preconditions (binary found, baseline path exists, superuser, engine
\* enabled) each held when it was checked; when a precondition fails the run
\* is over with a non-zero status, no load was issued and the engine holds
\* the ruleset it held when the run started.
C1_LoadOnlyAfterPreconditions ==
    version = "pf" =>
        /\ LoadIssued => PassedChecks = FourPreconditions /\ FailedChecks = {}
        /\ FailedChecks # {} =>
              /\ pc = "exit"
              /\ exitCode = 1
              /\ ~LoadIssued
              /\ engine.rules = rules0

\* a pf.go run whose four preconditions held and that issued the load
C1_Witness ==
    /\ version = "pf"
    /\ LoadIssued
    /\ PassedChecks = FourPreconditions
    /\ engine.rules # rules0

-----------------------------------------------------------------------------
(* C2 *)

\* C2: the temporary ruleset file of an enable run is gone in every terminal
\* state of the run (load succeeded, load failed, write failed, close failed).
C2_TempFileRemovedOnExit ==
    (version = "pf" /\ EnableRun /\ pc = "exit" /\ tmpName # NoFile) =>
        tmpName \notin DOMAIN tmpfs

-----------------------------------------------------------------------------
(* C3 *)

\* the order of the preconditions as the claim numbers them
ClaimedOrder == <<"lookPath", "isRoot", "stat", "isEnabled">>

\* C3 as stated: the preconditions of pf.go are evaluated binary, superuser,
\* baseline path, engine enabled.
C3_ClaimedOrder ==
    version = "pf" => IsPrefix(CheckNames, ClaimedOrder)

\* the diagnostic that names the failing precondition
DiagnosticNames(name) ==
    CASE name = "lookPath" ->
            LastDiag = <<Lit("exec: pfctl: executable file not found in $PATH")>>
      [] name = "stat" ->
            LastDiag = <<Lit("stat() failed on "), Lit(pf.defaultConfigurationPath)>>
      [] name = "isRoot" ->
            LastDiag \in {<<Lit("sudo is required for pfctl")>>,
                          <<Lit("user: Current not implemented")>>}
      [] name = "isEnabled" ->
            LastDiag \in {<<Lit("Packet filter is disabled")>>,
                          <<Lit("exit status 1")>>}

\* C3 (amended): the preconditions of pf.go are evaluated binary, baseline
\* path, superuser, engine enabled; the run aborts at the first that fails,
\* the diagnostic names it and no later precondition is evaluated.
C3_CheckOrder ==
    version = "pf" =>
        /\ IsPrefix(CheckNames, <<"lookPath", "stat", "isRoot", "isEnabled">>)
        /\ \A i \in DOMAIN checks : i < Len(checks) => checks[i].ok
        /\ \A i \in DOMAIN checks :
              ~checks[i].ok =>
                 /\ pc = "exit"
                 /\ exitCode = 1
                 /\ DiagnosticNames(checks[i].name)

\* not superuser and the baseline path missing: the run ended at the stat
C3_Witness ==
    /\ version = "pf"
    /\ pc = "exit"
    /\ env.binPresent
    /\ ~env.root
    /\ pf # NoPF
    /\ pf.defaultConfigurationPath \notin env.existing
    /\ CheckNames = <<"lookPath", "stat">>
    /\ LastDiag = <<Lit("stat() failed on "), Lit(pf.defaultConfigurationPath)>>

-----------------------------------------------------------------------------
(* C4 *)

\* policy.defaultConfigurationPath as the command line gives it
BaselinePath ==
    IF flags.flagDefaultConfigurationPath = "" THEN "/etc/pf.conf"
    ELSE flags.flagDefaultConfigurationPath

\* a finished run of DisableLock on a host without the baseline ruleset
DisableWithoutBaseline ==
    /\ DisableRun
    /\ pc = "exit"
    /\ pf # NoPF
    /\ BaselinePath \notin env.existing

\* C4 as stated: without the baseline path DisableLock makes no engine call
\* and its diagnostic names the missing path.
C4_AbortNamesMissingPath ==
    DisableWithoutBaseline =>
        /\ calls = <<>>
        /\ stderr # <<>>
        /\ LastDiag = <<Lit("stat() failed on "), Lit(BaselinePath)>>

\* C4 (amended): in pf.go, without the baseline path DisableLock aborts with
\* status 1 before any engine call; the diagnostic names the missing path when
\* pfctl is found on the search path, and is the failed lookup otherwise.
C4_AbortBeforeEngine ==
    (version = "pf" /\ DisableWithoutBaseline) =>
        /\ calls = <<>>
        /\ exitCode = 1
        /\ engine.rules = rules0
        /\ stderr # <<>>
        /\ IF env.binPresent
           THEN LastDiag = <<Lit("stat() failed on "), Lit(BaselinePath)>>
           ELSE LastDiag = <<Lit("exec: pfctl: executable file not found in $PATH")>>

\* DisableLock of pf.go stopped at the stat of a missing custom baseline path
C4_Witness ==
    /\ version = "pf"
    /\ DisableWithoutBaseline
    /\ env.binPresent
    /\ env.root
    /\ BaselinePath = CustomConfigurationPath
    /\ pfDefaultConfigurationPath \in env.existing
    /\ CheckNames = <<"lookPath", "stat">>

-----------------------------------------------------------------------------
(* C5 *)

\* the destination tokens an argument stands for, before any resolution
RECURSIVE MatchesOf(_)
MatchesOf(lines) ==
    IF lines = <<>> THEN <<>>
    ELSE LET m == FindStringSubmatch(Head(lines))
         IN  (IF m = <<>> THEN <<>> ELSE <<m>>) \o MatchesOf(Tail(lines))

TokensOf(v, a) ==
    CASE a.flag = "pass" -> IF v = "pf" THEN setMultiple(<<>>, a.val) ELSE <<a.val>>
      [] a.flag = "file" ->
            IF a.val \in DOMAIN ConfFiles THEN MatchesOf(ConfFiles[a.val]) ELSE <<>>
      [] OTHER -> <<>>

Unresolvable(s) == ~ParseIP(s) /\ LookupIP(s).err
MissingFileArg == \E i \in DOMAIN argv :
    argv[i].flag = "file" /\ argv[i].val \notin DOMAIN ConfFiles
UnresolvableArg == \E i \in DOMAIN argv :
    \E t \in Range(TokensOf(version, argv[i])) : Unresolvable(t)
NothingBuilt == pf = NoPF /\ calls = <<>> /\ checks = <<>> /\ stdout = <<>>

\* C5 as stated: a missing destination file or an unresolvable hostname keeps
\* the invocation from ever building a Policy or calling the engine.
C5_ExtractionFailureAborts ==
    (MissingFileArg \/ UnresolvableArg) => NothingBuilt

\* C5 (amended): a destination file that is missing or unreadable aborts the
\* invocation (status 2) before a Policy is built, rules are compiled or the
\* engine is called, in both generations; an unresolvable hostname does so
\* only where the extractor resolves (addServer).  netlock.go resolves
\* nothing: every token, resolvable or not, goes verbatim into the Policy.
C5_ExtractionAborts ==
    /\ exitCode = 2 => NothingBuilt /\ pc = "exit" /\ engine.rules = rules0
    /\ MissingFileArg => NothingBuilt
    /\ (version = "osx" /\ UnresolvableArg) => NothingBuilt
    /\ (version = "pf" /\ pf # NoPF) =>
          \A i \in DOMAIN argv :
             argv[i].flag # "skip" =>
                \A t \in Range(TokensOf("pf", argv[i])) : t \in Range(pf.destinations)

\* addServer failed on the second line of a file whose first line it had taken
C5_Witness ==
    /\ version = "osx"
    /\ exitCode = 2
    /\ destinations # <<>>
    /\ UnresolvableArg
    /\ pf = NoPF

-----------------------------------------------------------------------------
(* C6 *)

OKPrinted == \E i \in DOMAIN stdout : stdout[i] = <<stringsDone>>

\* C6: the status query of the preconditions comes before the load, the load
\* is the last engine call and comes after every precondition passed; "OK" is
\* printed last, only after the load returned zero, and ends the run with
\* status 0; a load that exits non-zero puts the engine's output on standard
\* error, prints no "OK" and ends the run with status 1.
C6_CheckLoadOutputOrder ==
    /\ LoadIssued =>
          /\ Len(calls) = 2 /\ ~IsLoad(calls[1]) /\ IsLoad(calls[2])
          /\ FailedChecks = {}
          /\ {"lookPath", "isRoot", "isEnabled"} \subseteq PassedChecks
          /\ pc \in {"ok", "exit"}
    /\ pc = "ok" => LoadIssued /\ ~OKPrinted /\ stderr = <<>>
    /\ OKPrinted =>
          /\ LoadIssued
          /\ pc = "exit"
          /\ exitCode = 0
          /\ stderr = <<>>
          /\ stdout[Len(stdout)] = <<stringsDone>>
    /\ (pc = "exit" /\ LoadIssued /\ exitCode # 0) =>
          /\ exitCode = 1
          /\ ~OKPrinted
          /\ stderr = << <<Lit("pfctl: "), Lit(LoadPath), Lit(": load failed")>>,
                         <<Lit("exit status 1")>> >>
    /\ (pc = "exit" /\ (EnableRun \/ DisableRun) /\ exitCode = 0) => OKPrinted

\* a run whose load exited non-zero
C6_Witness ==
    /\ pc = "exit"
    /\ LoadIssued
    /\ exitCode = 1
    /\ Len(stderr) = 2

-----------------------------------------------------------------------------
(* C7 *)

PrintOnly ==
    flags.flagPrintLockRules /\ ~flags.flagEnableLock /\ ~flags.flagDisableLock

\* C7: a print-only invocation evaluates no precondition, calls the engine
\* never, touches neither the engine's ruleset nor the temporary directory,
\* and once its Policy is built it prints the rules and ends with status 0,
\* whatever the binary, the user, the baseline path and the engine are.
C7_PrintNeedsNothing ==
    PrintOnly =>
        /\ checks = <<>>
        /\ calls = <<>>
        /\ engine.rules = rules0
        /\ tmpfs = <<>>
        /\ pc \in {"flagParse", "main", "exit"}
        /\ (pc = "exit" /\ pf # NoPF) =>
              exitCode = 0 /\ Len(stdout) = 1 /\ stderr = <<>>
        /\ (pc = "exit" /\ pf = NoPF) => exitCode = 2

\* print-only succeeded with nothing in place
C7_Witness ==
    /\ PrintOnly
    /\ pc = "exit"
    /\ exitCode = 0
    /\ ~env.binPresent
    /\ ~env.root
    /\ env.existing = {}
    /\ ~engine.enabled

-----------------------------------------------------------------------------
(* C8 *)

Succeeded == pc = "ok" \/ (pc = "exit" /\ exitCode = 0)

\* C8: an enable run that succeeds leaves the engine with exactly the compiled
\* ruleset of its Policy, and when the run before it (same command line) had
\* succeeded as well, with the same ruleset that run left.
C8_EnableIdempotent ==
    (EnableRun /\ Succeeded) =>
        /\ engine.rules = Rules(version, pf)
        /\ (run > 1 /\ history[run - 1].exitCode = 0) =>
              engine.rules = history[run - 1].rules

\* the second of two successful enable runs
C8_Witness ==
    /\ run = 2
    /\ history[1].exitCode = 0
    /\ EnableRun
    /\ pc = "exit"
    /\ exitCode = 0
    /\ pf.destinations # <<>>

-----------------------------------------------------------------------------
(* C9 *)

PolicyOf(p) ==
    [defaultConfigurationPath |-> p.defaultConfigurationPath,
     allowIncoming |-> p.allowIncoming,
     allowOutgoing |-> p.allowOutgoing,
     allowPrivateNetworks |-> p.allowPrivateNetworks,
     allowICMP |-> p.allowICMP,
     destinations |-> p.destinations,
     interfaces |-> p.interfaces]

Written == tmpName \in DOMAIN tmpfs /\ tmpfs[tmpName] # <<>>

\* C9: once main() built the Policy no step changes a field of it, and the
\* text EnableLock writes after preconfig() resolved the control path is the
\* text main() printed before it, on every host.
C9_PolicyFixedTextSame ==
    /\ [][pf # NoPF => pf' # NoPF /\ PolicyOf(pf') = PolicyOf(pf)]_vars
    /\ []((Written /\ flags.flagPrintLockRules) => tmpfs[tmpName] = stdout[1])
    /\ [](Written => tmpfs[tmpName] = Rules(version, [pf EXCEPT !.ctlPath = ""]))

\* printed and written by the same run, the control path resolved in between
C9_Witness ==
    /\ Written
    /\ flags.flagPrintLockRules
    /\ pf.ctlPath = ctlPathFound
    /\ pf.destinations # <<>>
    /\ ~engine.enabled

-----------------------------------------------------------------------------
(* C10 *)

DefaultInLines == {<<Lit("pass in all")>>, <<Lit("block in all")>>}
DefaultOutLines == {<<Lit("pass out all")>>, <<Lit("block out all")>>}
OptionalLines ==
    Range(PrivateNetworkLines) \cup Range(IcmpLines)
    \cup Range(OsxPrivateNetworkLines) \cup Range(OsxIcmpLines)
FixedLines == DefaultInLines \cup DefaultOutLines \cup OptionalLines

\* the ruleset a finished print-only run printed
Compiled == stdout[1]

NamesDestination(line) ==
    \E d \in Range(pf.destinations) : Str(d) \in Range(line)

\* the pass-out rule that admits destinations: one per address in osx_pf.go,
\* the rule on the table in pf.go
DestinationRule(line) ==
    IF version = "pf"
    THEN line = <<Lit("pass out quick from any to <allowed_destinations>")>>
    ELSE /\ Len(line) = 2
         /\ line[1] \in {Lit("pass out quick inet from any to "),
                         Lit("pass out quick inet6 from any to ")}
         /\ line[2] \in {Str(d) : d \in Range(pf.destinations)}

AfterFixedAndLast(text, i) ==
    /\ \A j \in DOMAIN text : text[j] \in FixedLines => j < i
    /\ \A k \in DOMAIN text : k > i => DestinationRule(text[k])

\* C10 as stated: every line that names a destination comes after the default
\* directives and the private-network and ICMP blocks.
C10_DestinationLinesLast ==
    (pc = "exit" /\ stdout # <<>>) =>
        \A i \in DOMAIN Compiled :
            NamesDestination(Compiled[i]) => AfterFixedAndLast(Compiled, i)

\* C10 (amended): the pass-out rules that admit the destinations come after
\* the default directives and the private-network and ICMP blocks, and only
\* such rules follow them; in osx_pf.go no other line names a destination, in
\* pf.go the destinations are named by the table definition alone, which is
\* the first line of the ruleset.
C10_PassRulesLast ==
    (pc = "exit" /\ stdout # <<>>) =>
        /\ \E i \in DOMAIN Compiled : Compiled[i] \in DefaultInLines
        /\ \E i \in DOMAIN Compiled : Compiled[i] \in DefaultOutLines
        /\ flags.flagAllowPrivateNetworks =>
              \E i \in DOMAIN Compiled : Compiled[i] \in OptionalLines
        /\ \A i \in DOMAIN Compiled :
              DestinationRule(Compiled[i]) => AfterFixedAndLast(Compiled, i)
        /\ IF version = "pf"
           THEN /\ DestinationRule(Compiled[Len(Compiled)])
                /\ \A i \in DOMAIN Compiled : NamesDestination(Compiled[i]) => i = 1
                /\ pf.destinations # <<>> => NamesDestination(Compiled[1])
           ELSE /\ \A i \in DOMAIN Compiled :
                      NamesDestination(Compiled[i]) => DestinationRule(Compiled[i])
                /\ Cardinality({i \in DOMAIN Compiled : DestinationRule(Compiled[i])})
                      = Len(pf.destinations)

\* pf.go compiled two destinations with every optional block
C10_Witness ==
    /\ pc = "exit"
    /\ version = "pf"
    /\ Len(pf.destinations) = 2
    /\ flags.flagAllowPrivateNetworks
    /\ flags.flagAllowICMP
    /\ NamesDestination(stdout[1][1])

-----------------------------------------------------------------------------
(* C11 *)

HasColon(d) == \E i \in DOMAIN d : d[i] = ":"

\* the rule the claim expects for the destination d
FamilyRule(d) ==
    <<Lit(IF HasColon(d) THEN "pass out quick inet6 from any to "
          ELSE "pass out quick inet from any to "), Str(d)>>

\* a line that passes traffic out to a destination or to a table
PassOutToAny(line) ==
    \E fam \in {"", "inet ", "inet6 "} :
        line[1] \in {Lit("pass out quick " \o fam \o "from any to "),
                     Lit("pass out quick " \o fam
                           \o "from any to <allowed_destinations>")}

\* the last Len(dests) lines of text are the family rules of dests, in order
EndsWithFamilyRules(text, dests) ==
    /\ Len(text) >= Len(dests)
    /\ \A i \in DOMAIN dests :
          text[Len(text) - Len(dests) + i] = FamilyRule(dests[i])

\* the user-supplied pieces of a line, in order
StrPieces(line, dests) ==
    SelectSeq(line, LAMBDA x : x \in {Str(d) : d \in Range(dests)})

\* C11 as stated: one pass-out rule per destination, in the order of the list,
\* as the last lines of the ruleset, each qualified inet6 when the destination
\* holds a colon and inet otherwise.
C11_OneRulePerDestination ==
    (pc = "exit" /\ stdout # <<>>) =>
        /\ EndsWithFamilyRules(Compiled, pf.destinations)
        /\ Cardinality({i \in DOMAIN Compiled : PassOutToAny(Compiled[i])})
              = Len(pf.destinations)

\* C11 (amended): osx_pf.go emits one pass-out rule per destination, in the
\* order of the list, as the last lines, inet6 when the destination holds a
\* colon and inet otherwise; pf.go emits a single unqualified pass-out rule on
\* the table as the last line, whatever the number of destinations, and lists
\* the destinations, in order, in the table definition on the first line.
C11_PassOutRules ==
    (pc = "exit" /\ stdout # <<>>) =>
        IF version = "osx"
        THEN /\ EndsWithFamilyRules(Compiled, pf.destinations)
             /\ Cardinality({i \in DOMAIN Compiled : PassOutToAny(Compiled[i])})
                   = Len(pf.destinations)
        ELSE /\ Compiled[Len(Compiled)]
                   = <<Lit("pass out quick from any to <allowed_destinations>")>>
             /\ {i \in DOMAIN Compiled : PassOutToAny(Compiled[i])} = {Len(Compiled)}
             /\ StrPieces(Compiled[1], pf.destinations)
                   = [i \in DOMAIN pf.destinations |-> Str(pf.destinations[i])]
             /\ \A i \in 2..Len(Compiled) :
                   StrPieces(Compiled[i], pf.destinations) = <<>>

\* osx_pf.go compiled an IPv4 destination followed by an IPv6 one
C11_Witness ==
    /\ pc = "exit"
    /\ version = "osx"
    /\ stdout # <<>>
    /\ pf.destinations = <<Ip4, Ip6>>
    /\ Compiled[Len(Compiled)][1] = Lit("pass out quick inet6 from any to ")

-----------------------------------------------------------------------------
(* C12 *)

\* flag.Parse went through the whole command line
ParsedAll == argIdx > Len(argv)
NoAction ==
    ~flags.flagEnableLock /\ ~flags.flagDisableLock /\ ~flags.flagPrintLockRules
Contradictory == flags.flagEnableLock /\ flags.flagDisableLock
NothingStarted == pf = NoPF /\ calls = <<>> /\ checks = <<>> /\ stdout = <<>>
RunSucceeded == OKPrinted \/ (PrintOnly /\ stdout # <<>>)

\* C12 as stated: status 64 both without an action flag and with enable and
\* disable together, before a Policy is built or the engine is called;
\* status 0 on success.
C12_UsageExit64 ==
    pc = "exit" =>
        /\ (ParsedAll /\ (NoAction \/ Contradictory)) =>
              (exitCode = 64 /\ NothingStarted)
        /\ RunSucceeded => exitCode = 0

\* C12 (amended): a command line without an action flag ends with status 64;
\* one with enable and disable together ends with status 1 and the diagnostic
\* "Enable and disable are mutually exclusive"; both before a Policy is built,
\* a precondition is evaluated or the engine is called. Status 64 is given in
\* no other case, and status 0 exactly when the run succeeded.
C12_UsageExitCodes ==
    pc = "exit" =>
        /\ (ParsedAll /\ NoAction) => (exitCode = 64 /\ NothingStarted)
        /\ (ParsedAll /\ Contradictory) =>
              /\ exitCode = 1
              /\ LastDiag = <<Lit("Enable and disable are mutually exclusive")>>
              /\ NothingStarted
        /\ exitCode = 64 => (ParsedAll /\ NoAction)
        /\ RunSucceeded <=> exitCode = 0

\* enable and disable together, after the destinations were collected
C12_Witness ==
    /\ pc = "exit"
    /\ Contradictory
    /\ ParsedAll
    /\ destinations # <<>>
    /\ exitCode = 1
    /\ pf = NoPF

-----------------------------------------------------------------------------
(* C13 *)

\* the destination tokens of the arguments args, in the order given
RECURSIVE AllTokens(_, _)
AllTokens(v, args) ==
    IF args = <<>> THEN <<>>
    ELSE TokensOf(v, Head(args)) \o AllTokens(v, Tail(args))

\* every token that is an IP literal kept, every other one replaced by the
\* addresses its name resolves to
RECURSIVE Resolved(_)
Resolved(tokens) ==
    IF tokens = <<>> THEN <<>>
    ELSE (IF ParseIP(Head(tokens)) THEN <<Head(tokens)>>
          ELSE LookupIP(Head(tokens)).addrs) \o Resolved(Tail(tokens))

OnlyAddresses(list) == \A i \in DOMAIN list : ParseIP(list[i])

\* C13 as stated: the destinations of the Policy are concrete IP addresses
\* only: every token that is an IP literal verbatim, every other token replaced
\* by all the addresses it resolves to, in first-seen order.
C13_OnlyResolvedAddresses ==
    pf # NoPF =>
        /\ OnlyAddresses(pf.destinations)
        /\ pf.destinations = Resolved(AllTokens(version, argv))

\* C13 (amended): where the extractor resolves (addServer), the destinations
\* of the Policy are concrete IP addresses only, literals verbatim and every
\* other token replaced by all its resolved addresses, in first-seen order;
\* netlock.go resolves nothing and validates nothing: the destinations are the
\* tokens themselves, in first-seen order, hostnames included.
C13_ExtractorOutput ==
    pf # NoPF =>
        IF version = "osx"
        THEN /\ OnlyAddresses(pf.destinations)
             /\ pf.destinations = Resolved(AllTokens("osx", argv))
        ELSE pf.destinations = AllTokens("pf", argv)

\* addServer took the literal of the first line of a file and replaced the
\* hostname of its Endpoint line by both of its addresses
C13_Witness ==
    /\ version = "osx"
    /\ pf # NoPF
    /\ \E i \in DOMAIN argv : argv[i] = [flag |-> "file", val |-> FileOk]
    /\ IsPrefix(<<Ip4, Ip4b, Ip6>>, pf.destinations)

-----------------------------------------------------------------------------
(* C14 *)

StatusQueries == {i \in DOMAIN calls : ~IsLoad(calls[i])}
Loads == {i \in DOMAIN calls : IsLoad(calls[i])}
EnabledCheckPassed == FailedChecks = {} /\ "isEnabled" \in PassedChecks

\* the controller stands at the load, after isEnabled returned true, and the
\* packet filter has been switched off since
CheckedThenDisabled == pc = "load" /\ EnabledCheckPassed /\ ~engine.enabled

\* C14: the engine-enabled check and the load are not atomic.  The external
\* actor may switch the engine at any step; the controller asks for the status
\* once at most, never after the check passed; at the load, whatever the
\* engine's state has become, its one step is the load command itself; and a
\* run that issued the load ends with status 0 and "OK" or with the status 1
\* of the failed command, nothing else telling it what the engine did.
C14_LoadWithoutRecheck ==
    /\ [][(pc = "load" /\ pc' # "load") =>
             /\ Len(calls') = Len(calls) + 1
             /\ IsLoad(calls'[Len(calls')])
             /\ SubSeq(calls', 1, Len(calls)) = calls]_vars
    /\ [][(pc = "load" /\ pc' = "load") => calls' = calls]_vars
    /\ [][engine'.enabled # engine.enabled =>
             (pc' = pc /\ calls' = calls /\ checks' = checks)]_vars
    /\ [](/\ Cardinality(StatusQueries) <= 1
          /\ Cardinality(Loads) <= 1
          /\ \A i \in StatusQueries : \A j \in Loads : i < j
          /\ EnabledCheckPassed => Cardinality(StatusQueries) = 1)
    /\ []((pc = "exit" /\ LoadIssued) =>
             /\ exitCode \in {0, 1}
             /\ exitCode = 0 <=> OKPrinted)

\* isEnabled returned true, the engine was disabled, the controller is about
\* to load the rules it wrote
C14_Witness ==
    /\ CheckedThenDisabled
    /\ version = "pf"
    /\ EnableRun
    /\ tmpName \in DOMAIN tmpfs
    /\ Len(calls) = 1

-----------------------------------------------------------------------------
(* C15 *)

TempFileMade == tmpfs # <<>> \/ tmpName # NoFile
AllPreconditionsPassed ==
    /\ FailedChecks = {}
    /\ {"lookPath", "isRoot", "isEnabled"} \subseteq PassedChecks
    /\ version = "pf" => "stat" \in PassedChecks

\* C15: a temporary ruleset file is made by an enable run only, and only
\* after every precondition passed; a run that aborts on a precondition, a
\* disable run and a run stopped before its action never hold one, at any
\* point, and the step that makes the file leaves the preconditions as
\* evaluated.
C15_TempFileOnlyAfterPreconditions ==
    /\ TempFileMade => (flags.flagEnableLock /\ AllPreconditionsPassed)
    /\ FailedChecks # {} => ~TempFileMade
    /\ ~flags.flagEnableLock => ~TempFileMade
    /\ pc \in {"flagParse", "main", "lookPath", "stat", "isRoot", "isEnabled"}
          => ~TempFileMade

\* an enable run that the engine-enabled check ended, the three checks before
\* it passed: nothing was written
C15_Witness ==
    /\ pc = "exit"
    /\ version = "pf"
    /\ flags.flagEnableLock
    /\ CheckNames = <<"lookPath", "stat", "isRoot", "isEnabled">>
    /\ FailedChecks = {"isEnabled"}
    /\ tmpfs = <<>>
    /\ pf.destinations # <<>>

====
